---------------------------- MODULE Spec2Model ----------------------------
(***************************************************************************)
(* A model of backend/docs/examples/python-examples.py:                    *)
(*   - MemeCoinAnalyzerAPI, the HTTP wrapper (SpecApi);                    *)
(*   - WebSocketClient, its caller thread and its listener threads: the    *)
(*     life of the connection (SpecWs) and the dispatch of received        *)
(*     frames (SpecWsRecv);                                                *)
(*   - retry_with_backoff of error_handling_example (SpecRetry).           *)
(* Python values are tagged records so that None, a missing key and a      *)
(* string stay distinct values that can be compared.                       *)
(***************************************************************************)
EXTENDS Integers, Sequences, FiniteSets, TLC

VARIABLES
    \* ---- MemeCoinAnalyzerAPI
    token,        \* self.token
    headers,      \* self.session.headers
    apiPc,        \* "idle", or "waiting" while a request is with the server
    wire,         \* the request handed to session.request by the running call
    result,       \* what the last finished API call gave its caller
    lastSet,      \* history: the token most recently passed to be set
    calls,        \* number of API operations started
    \* ---- WebSocketClient
    ws_token,         \* self.token
    ws,               \* self.ws: 0 for None, else the socket created last
    is_connected,     \* self.is_connected
    message_handlers, \* self.message_handlers
    socks,            \* the WebSocketApp objects created, with their threads
    caller,           \* the caller thread's position
    sendlog,          \* the calls of ws.send, in order
    rx,               \* the last finished run of on_message_received
    lastReg,          \* history: the handler last passed to on_message, per type
    \* ---- retry_with_backoff
    rt                \* the frame of retry_with_backoff

apiVars == <<token, headers, apiPc, wire, result, lastSet, calls>>
wsVars == <<ws_token, ws, is_connected, message_handlers, socks, caller,
            sendlog, rx, lastReg>>
vars == <<apiVars, wsVars, rt>>

-----------------------------------------------------------------------------
(* Python values *)

PyNone == [py |-> "None"]
PyStr(s) == [py |-> "str", s |-> s]
Absent == [py |-> "absent"]

\* bool(v) for None and str
Truthy(v) == v.py = "str" /\ v.s # ""

\* f'{v}' for None and str
Format(v) == IF v.py = "None" THEN "None" ELSE v.s

TokenStrings == {"", "tokA", "tokB", "None"}
TokenVals == {PyNone} \cup {PyStr(s) : s \in TokenStrings}

-----------------------------------------------------------------------------
(* MemeCoinAnalyzerAPI *)

\* Bound: API operations started in one run.
MaxCalls == 2

base_url == "http://localhost:3001"

DefaultHeaders ==
    ("Content-Type" :> "application/json")
        @@ ("User-Agent" :> "MemeCoinAnalyzer-Python-Client/1.0")

ApiOps ==
    { [name |-> "register", method |-> "POST", endpoint |-> "/api/v1/auth/register"],
      [name |-> "login", method |-> "POST", endpoint |-> "/api/v1/auth/login"],
      [name |-> "get_profile", method |-> "GET", endpoint |-> "/api/v1/auth/profile"],
      [name |-> "update_preferences", method |-> "PUT", endpoint |-> "/api/v1/auth/preferences"],
      [name |-> "get_coins", method |-> "GET", endpoint |-> "/api/v1/coins"],
      [name |-> "get_coin_by_id", method |-> "GET", endpoint |-> "/api/v1/coins/{coin_id}"],
      [name |-> "get_coin_by_address", method |-> "GET", endpoint |-> "/api/v1/coins/address/{address}"],
      [name |-> "create_coin", method |-> "POST", endpoint |-> "/api/v1/coins"],
      [name |-> "search_coins", method |-> "GET", endpoint |-> "/api/v1/coins/search"],
      [name |-> "get_price_history", method |-> "GET", endpoint |-> "/api/v1/coins/{coin_id}/price-history"],
      [name |-> "get_risk_assessment", method |-> "GET", endpoint |-> "/api/v1/risk-assessment/{coin_id}"],
      [name |-> "get_portfolio", method |-> "GET", endpoint |-> "/api/v1/portfolio"],
      [name |-> "add_to_portfolio", method |-> "POST", endpoint |-> "/api/v1/portfolio"],
      [name |-> "update_portfolio_item", method |-> "PUT", endpoint |-> "/api/v1/portfolio/{item_id}"],
      [name |-> "remove_from_portfolio", method |-> "DELETE", endpoint |-> "/api/v1/portfolio/{item_id}"],
      [name |-> "get_alerts", method |-> "GET", endpoint |-> "/api/v1/alerts"],
      [name |-> "create_alert", method |-> "POST", endpoint |-> "/api/v1/alerts"],
      [name |-> "update_alert", method |-> "PUT", endpoint |-> "/api/v1/alerts/{alert_id}"],
      [name |-> "delete_alert", method |-> "DELETE", endpoint |-> "/api/v1/alerts/{alert_id}"] }

AuthOps == {"register", "login"}

\* set_token with the header left out
set_token_noheader(hdrs, t) == [token |-> t, headers |-> hdrs]

\* set_token: self.token and the session's Authorization header
set_token(hdrs, t) ==
    [token |-> t,
     headers |-> ("Authorization" :> ("Bearer " \o Format(t))) @@ hdrs]

\* __init__(token=t): the default headers, then set_token when t is truthy
Construct(t) ==
    IF Truthy(t) THEN set_token(DefaultHeaders, t)
    ELSE [token |-> t, headers |-> DefaultHeaders]

(* What the server and the transport can answer. *)
Statuses == {199, 200, 301, 399, 400, 499, 500, 599, 600}

NoPayload == [isdict |-> FALSE, success |-> "absent", data |-> Absent]

\* A decoded JSON value as login and register look at it: a non-dict, or a
\* dict with 'success' absent, falsy or truthy and 'data' absent, null, or
\* a dict with or without 'token'.
DataVals ==
    {Absent, PyNone, [py |-> "dict", token |-> Absent]}
        \cup {[py |-> "dict", token |-> t] : t \in {PyNone, PyStr("tokB")}}

Payloads ==
    {NoPayload}
        \cup [isdict : {TRUE}, success : {"absent", "falsy", "truthy"}, data : DataVals]

\* An answer: the transport failed, or a status with a body that is JSON
\* (then its decoded value) or is not.
Responses ==
    {[transport |-> "error", status |-> 0, json |-> FALSE, payload |-> NoPayload]}
        \cup [transport : {"ok"}, status : Statuses, json : {FALSE}, payload : {NoPayload}]
        \cup [transport : {"ok"}, status : Statuses, json : {TRUE}, payload : Payloads]

\* raise_for_status that lets the 5xx statuses through
raise_for_status_4xx_only(status) == 400 <= status /\ status < 500

\* response.raise_for_status(): raises HTTPError for 4xx and 5xx
raise_for_status(status) == 400 <= status /\ status < 600

NoResult ==
    [kind |-> "none", exc |-> "", printed |-> FALSE, status |-> 0,
     json |-> FALSE, payload |-> NoPayload]

\* _make_request once the answer is in: a payload returned, or an exception
\* raised (printed by the two except clauses).  A body that is not JSON makes
\* response.json() raise; whether that error is a RequestException, and so
\* printed, depends on the requests release (jsonErrIsReqExc).  The body is
\* decoded only when raise_for_status let the answer through.
_make_request(resp, jsonErrIsReqExc) ==
    LET base == [kind |-> "raised", exc |-> "", printed |-> FALSE,
                 status |-> resp.status, json |-> FALSE, payload |-> NoPayload]
    IN  IF resp.transport = "error"
          THEN [base EXCEPT !.exc = "RequestException", !.printed = TRUE]
        ELSE IF raise_for_status(resp.status)
          THEN [base EXCEPT !.exc = "HTTPError", !.printed = TRUE]
        ELSE IF ~resp.json
          THEN [base EXCEPT !.exc = "JSONDecodeError", !.printed = jsonErrIsReqExc]
        ELSE [base EXCEPT !.kind = "returned", !.json = TRUE,
                          !.payload = resp.payload]

\* login/register that take the token from 'data' without looking at 'success'
auth_effect_ignores_success(hdrs, tok, r) ==
    IF r.kind # "returned" THEN [token |-> tok, headers |-> hdrs, result |-> r]
    ELSE IF ~r.payload.isdict
      THEN [token |-> tok, headers |-> hdrs,
            result |-> [r EXCEPT !.kind = "raised", !.exc = "AttributeError"]]
    ELSE IF r.payload.data.py = "dict" /\ r.payload.data.token # Absent
      THEN set_token(hdrs, r.payload.data.token) @@ [result |-> r]
    ELSE [token |-> tok, headers |-> hdrs, result |-> r]

\* The body of register and login after _make_request gave r:
\*   if result.get('success') and 'data' in result:
\*       self.set_token(result['data']['token'])
\*   return result
auth_effect(hdrs, tok, r) ==
    LET same == [token |-> tok, headers |-> hdrs]
    IN  IF r.kind # "returned" THEN same @@ [result |-> r]
        ELSE IF ~r.payload.isdict
          THEN same @@ [result |-> [r EXCEPT !.kind = "raised", !.exc = "AttributeError"]]
        ELSE IF r.payload.success = "truthy" /\ r.payload.data # Absent
          THEN IF r.payload.data.py # "dict"
                 THEN same @@ [result |-> [r EXCEPT !.kind = "raised", !.exc = "TypeError"]]
               ELSE IF r.payload.data.token = Absent
                 THEN same @@ [result |-> [r EXCEPT !.kind = "raised", !.exc = "KeyError"]]
               ELSE set_token(hdrs, r.payload.data.token) @@ [result |-> r]
        ELSE same @@ [result |-> r]

\* The token an answer to login/register hands over: the answer passes
\* raise_for_status, is a JSON dict with a truthy 'success' and a 'data' dict
\* that has 'token'.
HandsOverToken(resp) ==
    /\ resp.transport = "ok"
    /\ ~(400 <= resp.status /\ resp.status < 600)
    /\ resp.json
    /\ resp.payload.isdict
    /\ resp.payload.success = "truthy"
    /\ resp.payload.data.py = "dict"
    /\ resp.payload.data.token # Absent

NotSet == [py |-> "notset"]

ApiInit ==
    /\ \E t \in TokenVals :
         /\ token = Construct(t).token
         /\ headers = Construct(t).headers
         /\ lastSet = IF Truthy(t) THEN t ELSE NotSet
    /\ apiPc = "idle"
    /\ wire = [op |-> "", method |-> "", url |-> "", headers |-> DefaultHeaders]
    /\ result = NoResult
    /\ calls = 0

\* api.set_token(t)
SetToken(t) ==
    /\ apiPc = "idle"
    /\ token' = set_token(headers, t).token
    /\ headers' = set_token(headers, t).headers
    /\ lastSet' = t
    /\ UNCHANGED <<apiPc, wire, result, calls>>
    /\ UNCHANGED <<wsVars, rt>>

\* An API method calls _make_request, which hands the request, with the
\* session's headers, to session.request.
Forward(op) ==
    /\ apiPc = "idle"
    /\ calls < MaxCalls
    /\ calls' = calls + 1
    /\ apiPc' = "waiting"
    /\ wire' = [op |-> op.name, method |-> op.method,
                url |-> base_url \o op.endpoint, headers |-> headers]
    /\ result' = NoResult
    /\ UNCHANGED <<token, headers, lastSet>>
    /\ UNCHANGED <<wsVars, rt>>

\* The answer arrives: _make_request returns or raises, and register and
\* login go on to look at the payload.
Answer(resp, jsonErrIsReqExc) ==
    /\ apiPc = "waiting"
    /\ apiPc' = "idle"
    /\ LET r == _make_request(resp, jsonErrIsReqExc)
       IN  IF wire.op \in AuthOps
             THEN /\ token' = auth_effect(headers, token, r).token
                  /\ headers' = auth_effect(headers, token, r).headers
                  /\ result' = auth_effect(headers, token, r).result
                  /\ lastSet' = IF HandsOverToken(resp) THEN resp.payload.data.token
                                ELSE lastSet
             ELSE /\ result' = r
                  /\ UNCHANGED <<token, headers, lastSet>>
    /\ UNCHANGED <<wire, calls>>
    /\ UNCHANGED <<wsVars, rt>>


-----------------------------------------------------------------------------
(* Properties of MemeCoinAnalyzerAPI, checked under SpecApi *)

Bearer(t) == "Bearer " \o Format(t)

CarriesBearer(hdrs, t) ==
    "Authorization" \in DOMAIN hdrs /\ hdrs["Authorization"] = Bearer(t)

\* C1: once a token t has been set (a truthy constructor token, set_token(t),
\* or a login/register answer that hands a token over), self.token is the
\* token set last, the session carries Authorization = 'Bearer ' + that token,
\* and so does every request that is forwarded.
C1_BearerOfLastSetToken ==
    lastSet # NotSet =>
        /\ token = lastSet
        /\ CarriesBearer(headers, lastSet)
        /\ apiPc = "waiting" => CarriesBearer(wire.headers, lastSet)

\* C1 witness: a request is on its way after a login handed over "tokB",
\* replacing whatever was set before.
C1_Witness ==
    /\ apiPc = "waiting" /\ calls = 2 /\ wire.op = "get_portfolio"
    /\ lastSet = PyStr("tokB") /\ token = PyStr("tokB")

Is4xx5xx(status) == 400 <= status /\ status < 600
Is2xx(status) == 200 <= status /\ status < 300

\* C2 as stated: a payload is returned only for a 2xx status, and every
\* non-2xx status ends in a printed, raised error.
C2_RaisesOnEveryNon2xx ==
    /\ result.kind = "returned" => Is2xx(result.status)
    /\ (result.kind # "none" /\ result.status # 0 /\ ~Is2xx(result.status)) =>
           (result.kind = "raised" /\ result.printed)

\* C2 amended: a payload is returned only for a status outside 400..599 whose
\* body decodes as JSON, and every 4xx and 5xx status ends in an HTTPError
\* that is printed and raised, with nothing returned.
C2_RaisesOn4xx5xx ==
    /\ result.kind = "returned" => (~Is4xx5xx(result.status) /\ result.json)
    /\ (result.kind # "none" /\ Is4xx5xx(result.status)) =>
           (result.kind = "raised" /\ result.printed /\ result.exc = "HTTPError")

\* C2 witness: a 5xx answer was raised to the caller of a plain API method.
C2_Witness ==
    /\ apiPc = "idle" /\ wire.op = "get_coins"
    /\ result.kind = "raised" /\ result.status = 500 /\ result.printed

\* The answer a login or register got makes it set the token: it returned,
\* with a truthy 'success' and a 'data' that contains 'token'.
AuthSucceeded(r) ==
    /\ r.kind = "returned"
    /\ r.payload.isdict
    /\ r.payload.success = "truthy"
    /\ r.payload.data.py = "dict"
    /\ r.payload.data.token # Absent

AuthAnswered == apiPc = "waiting" /\ apiPc' = "idle" /\ wire.op \in AuthOps

\* C10: a login or register that raises, or whose answer lacks a truthy
\* 'success', lacks 'data', or has a 'data' without 'token', leaves self.token
\* and the session's headers as they were; they change only on an answer with
\* a truthy 'success' and a 'data' that contains 'token'.
C10_FailedAuthKeepsCredentials ==
    [][AuthAnswered =>
          (~AuthSucceeded(result') => (token' = token /\ headers' = headers))]_vars

\* C10 witness: a login holding a token got a truthy 'success' with a 'data'
\* that has no 'token', and raised KeyError.
C10_Witness ==
    /\ apiPc = "idle" /\ wire.op = "login" /\ result.exc = "KeyError"
    /\ token = PyStr("tokA") /\ CarriesBearer(headers, PyStr("tokA"))

-----------------------------------------------------------------------------
(* JSON as WebSocketClient uses it: json.dumps of a message dict, json.loads *)
(* of a received frame.  A text is a sequence of tokens; a dict is the     *)
(* sequence of its <<key, value>> items in insertion order.                *)

PyList == [py |-> "list"]
PyDict(items) == [py |-> "dict", items |-> items]

P(c) == [tok |-> "punct", s |-> c]
S(str) == [tok |-> "string", s |-> str]
Null == [tok |-> "null", s |-> ""]
EmptyList == [tok |-> "list", s |-> ""]

dumps_value(v) ==
    IF v.py = "str" THEN S(v.s) ELSE IF v.py = "None" THEN Null ELSE EmptyList

RECURSIVE dumps_items(_)
dumps_items(items) ==
    IF Len(items) = 0 THEN <<>>
    ELSE LET m == <<S(Head(items)[1]), P(":"), dumps_value(Head(items)[2])>>
         IN  IF Len(items) = 1 THEN m
             ELSE m \o <<P(",")>> \o dumps_items(Tail(items))

\* json.dumps(message) for a dict of str, None and list values
json_dumps(items) == <<P("{")>> \o dumps_items(items) \o <<P("}")>>

IsValueTok(t) == t.tok \in {"string", "null", "list"}

loads_value(t) ==
    IF t.tok = "string" THEN PyStr(t.s) ELSE IF t.tok = "null" THEN PyNone ELSE PyList

\* The members between the braces: key ":" value, separated by ",".
RECURSIVE loads_items(_)
loads_items(toks) ==
    IF Len(toks) = 0 THEN [ok |-> TRUE, items |-> <<>>]
    ELSE IF Len(toks) < 3 \/ toks[1].tok # "string" \/ toks[2] # P(":")
            \/ ~IsValueTok(toks[3])
      THEN [ok |-> FALSE, items |-> <<>>]
    ELSE LET m == <<toks[1].s, loads_value(toks[3])>>
         IN  IF Len(toks) = 3 THEN [ok |-> TRUE, items |-> <<m>>]
             ELSE IF Len(toks) < 7 \/ toks[4] # P(",")
               THEN [ok |-> FALSE, items |-> <<>>]
             ELSE LET rest == loads_items(SubSeq(toks, 5, Len(toks)))
                  IN  [ok |-> rest.ok, items |-> <<m>> \o rest.items]

NoValue == PyDict(<<>>)

\* json.loads(message).  A str is parsed; bytes (a binary frame) are first
\* decoded, which raises UnicodeDecodeError when they are not valid UTF-8.
json_loads(frame) ==
    LET t == frame.text
        bad == [exc |-> "JSONDecodeError", value |-> NoValue]
    IN  IF frame.opcode = "binary" /\ ~frame.utf8
          THEN [exc |-> "UnicodeDecodeError", value |-> NoValue]
        ELSE IF Len(t) = 1 /\ IsValueTok(t[1])
          THEN [exc |-> "", value |-> loads_value(t[1])]
        ELSE IF Len(t) < 2 \/ t[1] # P("{") \/ t[Len(t)] # P("}") THEN bad
        ELSE LET r == loads_items(SubSeq(t, 2, Len(t) - 1))
             IN  IF r.ok THEN [exc |-> "", value |-> PyDict(r.items)] ELSE bad

\* d.get(key) for a dict
RECURSIVE dict_get(_, _)
dict_get(items, key) ==
    IF Len(items) = 0 THEN PyNone
    ELSE IF items[Len(items)][1] = key THEN items[Len(items)][2]
    ELSE dict_get(SubSeq(items, 1, Len(items) - 1), key)

-----------------------------------------------------------------------------
(* WebSocketClient *)

\* Bounds: WebSocketApp objects created by connect(), send_message calls of
\* the caller thread.
MaxSockets == 2
MaxSends == 2

MsgTypes == {"price_update", "whale_movement"}
HandlerIds == {"h1", "h2"}
Channels == {"price_updates"}
CoinIds == {PyNone, PyStr("1")}
WsTokens == {PyNone, PyStr(""), PyStr("tokA")}

\* The frames a server can send: JSON objects with every kind of 'type'
\* (a string, a list, none at all), a JSON array, a truncated object, and
\* binary frames: a JSON object in UTF-8, and bytes that are not UTF-8.
ObjectTexts ==
    {json_dumps(<<<<"type", ty>>, <<"data", PyStr("d")>>>>) :
        ty \in {PyStr(t) : t \in MsgTypes} \cup {PyList}}
        \cup {json_dumps(<<<<"data", PyStr("d")>>>>)}

PriceUpdateText ==
    json_dumps(<<<<"type", PyStr("price_update")>>, <<"data", PyStr("d")>>>>)

TextFrames ==
    [opcode : {"text"}, utf8 : {TRUE},
     text : ObjectTexts \cup {<<EmptyList>>}
              \cup {SubSeq(PriceUpdateText, 1, Len(PriceUpdateText) - 1)}]

BinaryFrames ==
    {[opcode |-> "binary", utf8 |-> TRUE, text |-> PriceUpdateText],
     [opcode |-> "binary", utf8 |-> FALSE, text |-> <<>>]}

Frames == TextFrames \cup BinaryFrames

NoFrame == [opcode |-> "none", utf8 |-> TRUE, text |-> <<>>]

\* The locals of one run of on_message_received, and what it did.  (known:
\* history, whether on_message had been called for the frame's 'type' when
\* the frame was taken.)
NoRx ==
    [sock |-> 0, raw |-> NoFrame, parsed |-> FALSE, data |-> NoValue, typ |-> PyNone,
     calls |-> <<>>, exc |-> "", printed |-> "", done |-> TRUE, known |-> FALSE]

\* A WebSocketApp with its listener thread; cur is the run of
\* on_message_received the thread is in.
NewSock ==
    [net |-> "connecting", pc |-> "handshake", opened |-> FALSE, closedcb |-> FALSE,
     cur |-> NoRx]

AuthMsg(t) == <<<<"type", PyStr("auth")>>, <<"token", t>>>>

\* subscribe's message: 'coinId' only for a truthy coin_id
SubscribeMsg(channel, coin_id) ==
    LET m == <<<<"type", PyStr("subscribe")>>, <<"channel", PyStr(channel)>>>>
    IN  IF Truthy(coin_id) THEN Append(m, <<"coinId", coin_id>>) ELSE m

\* send_message's condition: if self.ws and self.is_connected
send_guard(w, conn) == w # 0 /\ conn

\* One call of ws.send: the socket self.ws names at that moment, the text,
\* the calling thread (0: the caller, s: the listener of socket s), and what
\* that socket's callbacks had done by then.
SendEntry(text, by, id, after) ==
    [sock |-> ws, text |-> text, by |-> by, id |-> id, after |-> after,
     opened |-> socks[ws].opened, closedcb |-> socks[ws].closedcb,
     net |-> socks[ws].net]

WsInit ==
    /\ ws_token \in WsTokens
    /\ ws = 0
    /\ is_connected = FALSE
    /\ message_handlers = <<>>
    /\ socks = <<>>
    /\ caller = [pc |-> "idle", text |-> <<>>, sends |-> 0, connectedTrue |-> FALSE,
                 dropped |-> {}]
    /\ sendlog = <<>>
    /\ rx = NoRx
    /\ lastReg = <<>>

\* on_message that keeps a handler already registered for the type
on_message_keep_first(handlers, message_type, handler) ==
    IF message_type \in DOMAIN handlers THEN handlers
    ELSE (message_type :> handler) @@ handlers

\* on_message: self.message_handlers[message_type] = handler
on_message(handlers, message_type, handler) ==
    (message_type :> handler) @@ handlers

OnMessage(message_type, handler) ==
    /\ caller.pc = "idle"
    /\ message_handlers' = on_message(message_handlers, message_type, handler)
    /\ lastReg' = (message_type :> handler) @@ lastReg
    /\ UNCHANGED <<ws_token, ws, is_connected, socks, caller, sendlog, rx>>
    /\ UNCHANGED <<apiVars, rt>>

\* connect(), up to time.sleep(1): a new WebSocketApp replaces self.ws and
\* its listener thread is started.
Connect ==
    /\ caller.pc = "idle"
    /\ Len(socks) < MaxSockets
    /\ socks' = Append(socks, NewSock)
    /\ ws' = Len(socks) + 1
    /\ caller' = [caller EXCEPT !.pc = "connect_sleep"]
    /\ UNCHANGED <<ws_token, is_connected, message_handlers, sendlog, rx, lastReg>>
    /\ UNCHANGED <<apiVars, rt>>

\* connect() after the sleep: return self.is_connected
ConnectReturn ==
    /\ caller.pc = "connect_sleep"
    /\ caller' = [caller EXCEPT !.pc = "idle", !.connectedTrue = is_connected]
    /\ UNCHANGED <<ws_token, ws, is_connected, message_handlers, socks, sendlog, rx,
                   lastReg>>
    /\ UNCHANGED <<apiVars, rt>>

\* subscribe(channel, coin_id) up to send_message's condition: the message
\* goes on to ws.send, or is printed as not connected and dropped.
Subscribe(channel, coin_id) ==
    /\ caller.pc = "idle"
    /\ caller.sends < MaxSends
    /\ IF send_guard(ws, is_connected)
         THEN caller' = [caller EXCEPT !.pc = "send_checked",
                                       !.sends = @ + 1,
                                       !.text = json_dumps(SubscribeMsg(channel, coin_id))]
         ELSE caller' = [caller EXCEPT !.sends = @ + 1,
                                       !.dropped = @ \cup {caller.sends + 1}]
    /\ UNCHANGED <<ws_token, ws, is_connected, message_handlers, socks, sendlog, rx,
                   lastReg>>
    /\ UNCHANGED <<apiVars, rt>>

\* send_message after its condition held: self.ws.send(json.dumps(message))
CallerSend ==
    /\ caller.pc = "send_checked"
    /\ sendlog' = Append(sendlog,
                         SendEntry(caller.text, 0, caller.sends, caller.connectedTrue))
    /\ caller' = [caller EXCEPT !.pc = "idle", !.text = <<>>]
    /\ UNCHANGED <<ws_token, ws, is_connected, message_handlers, socks, rx, lastReg>>
    /\ UNCHANGED <<apiVars, rt>>

\* disconnect(): if self.ws: self.ws.close()
Disconnect ==
    /\ caller.pc = "idle"
    /\ ws # 0
    /\ socks[ws].net # "closed"
    /\ socks' = [socks EXCEPT ![ws].net = "closed"]
    /\ UNCHANGED <<ws_token, ws, is_connected, message_handlers, caller, sendlog, rx,
                   lastReg>>
    /\ UNCHANGED <<apiVars, rt>>

\* The listener thread of socket s finished the handshake and calls on_open:
\* self.is_connected = True.
OnOpen(s) ==
    /\ socks[s].pc = "handshake"
    /\ socks[s].net = "connecting"
    /\ is_connected' = TRUE
    /\ socks' = [socks EXCEPT ![s].net = "open", ![s].opened = TRUE,
                              ![s].pc = "on_open_if"]
    /\ UNCHANGED <<ws_token, ws, message_handlers, caller, sendlog, rx, lastReg>>
    /\ UNCHANGED <<apiVars, rt>>

\* on_open goes on: if self.token, send_message evaluates its condition.
OnOpenCheck(s) ==
    /\ socks[s].pc = "on_open_if"
    /\ socks' = [socks EXCEPT ![s].pc =
                    IF Truthy(ws_token) /\ send_guard(ws, is_connected)
                      THEN "on_open_send" ELSE "recv"]
    /\ UNCHANGED <<ws_token, ws, is_connected, message_handlers, caller, sendlog, rx,
                   lastReg>>
    /\ UNCHANGED <<apiVars, rt>>

\* on_open's send_message calls self.ws.send with the auth message.
OnOpenSend(s) ==
    /\ socks[s].pc = "on_open_send"
    /\ sendlog' = Append(sendlog, SendEntry(json_dumps(AuthMsg(ws_token)), s, 0, FALSE))
    /\ socks' = [socks EXCEPT ![s].pc = "recv"]
    /\ UNCHANGED <<ws_token, ws, is_connected, message_handlers, caller, rx, lastReg>>
    /\ UNCHANGED <<apiVars, rt>>

\* The server closes the connection, or the network drops it.
PeerClose(s) ==
    /\ socks[s].net = "open"
    /\ socks' = [socks EXCEPT ![s].net = "closed"]
    /\ UNCHANGED <<ws_token, ws, is_connected, message_handlers, caller, sendlog, rx,
                   lastReg>>
    /\ UNCHANGED <<apiVars, rt>>

\* The listener thread finds its connection closed, or could not open it,
\* and calls on_close before it ends: self.is_connected = False.
OnClose(s) ==
    /\ \/ socks[s].pc = "recv" /\ socks[s].net = "closed"
       \/ socks[s].pc = "handshake"
    /\ is_connected' = FALSE
    /\ socks' = [socks EXCEPT ![s].net = "closed", ![s].closedcb = TRUE,
                              ![s].pc = "done"]
    /\ UNCHANGED <<ws_token, ws, message_handlers, caller, sendlog, rx, lastReg>>
    /\ UNCHANGED <<apiVars, rt>>

\* on_message_received up to the lookup of a handler:
\*   data = json.loads(message); message_type = data.get('type')
\*   if message_type in self.message_handlers: ... else: print(...)
\* JSONDecodeError is caught and printed; any other exception leaves the
\* method.
receive(handlers, frame) ==
    LET j == json_loads(frame)
        base == [NoRx EXCEPT !.raw = frame]
        typ == dict_get(j.value.items, "type")
    IN  IF j.exc = "JSONDecodeError"
          THEN [base EXCEPT !.printed = "Failed to parse WebSocket message"]
        ELSE IF j.exc # "" THEN [base EXCEPT !.exc = j.exc]
        ELSE IF j.value.py # "dict"
          THEN [base EXCEPT !.parsed = TRUE, !.exc = "AttributeError"]
        ELSE IF typ.py = "list"
          THEN [base EXCEPT !.parsed = TRUE, !.data = j.value, !.typ = typ,
                            !.exc = "TypeError", !.printed = "Received message"]
        ELSE IF typ.py = "str" /\ typ.s \in DOMAIN handlers
          THEN [base EXCEPT !.parsed = TRUE, !.data = j.value, !.typ = typ,
                            !.printed = "Received message", !.done = FALSE]
        ELSE [base EXCEPT !.parsed = TRUE, !.data = j.value, !.typ = typ,
                          !.printed = "No handler for message type"]

\* The listener thread of socket s takes a frame and calls
\* on_message_received.
Receive(s, frame) ==
    /\ socks[s].pc = "recv"
    /\ socks[s].net = "open"
    /\ LET r0 == receive(message_handlers, frame)
           r == [r0 EXCEPT !.sock = s,
                           !.known = r0.typ.py = "str" /\ r0.typ.s \in DOMAIN lastReg]
       IN  IF r.done
             THEN rx' = r /\ UNCHANGED socks
             ELSE /\ socks' = [socks EXCEPT ![s].pc = "dispatch", ![s].cur = r]
                  /\ UNCHANGED rx
    /\ UNCHANGED <<ws_token, ws, is_connected, message_handlers, caller, sendlog, lastReg>>
    /\ UNCHANGED <<apiVars, rt>>

\* self.message_handlers[message_type](data); latest is the history of the
\* registrations at the time of the call.
handler_call(handlers, r, latest) ==
    [handler |-> handlers[r.typ.s], arg |-> r.data, latest |-> latest]

\* on_message_received calls the handler it found.
Dispatch(s) ==
    /\ socks[s].pc = "dispatch"
    /\ rx' = [socks[s].cur EXCEPT
                 !.calls = Append(@, handler_call(message_handlers, socks[s].cur,
                                                  lastReg[socks[s].cur.typ.s])),
                 !.done = TRUE]
    /\ socks' = [socks EXCEPT ![s].pc = "recv", ![s].cur = NoRx]
    /\ UNCHANGED <<ws_token, ws, is_connected, message_handlers, caller, sendlog,
                   lastReg>>
    /\ UNCHANGED <<apiVars, rt>>

-----------------------------------------------------------------------------
(* retry_with_backoff(func, max_retries, base_delay) *)

\* Bounds: the arguments tried, from 0 (max_retries) and 1 (base_delay) up.
MaxRetriesBound == 4
MaxBaseDelay == 2

\* What a call of func can do: return a value, or raise an exception.
FuncValues == {PyNone, PyStr("coins")}
FuncErrors == {"ConnectionError", "HTTPError"}
FuncOutcomes ==
    [ok : {TRUE}, value : FuncValues, exc : {""}]
        \cup [ok : {FALSE}, value : {PyNone}, exc : FuncErrors]

RECURSIVE Pow2(_)
Pow2(n) == IF n = 0 THEN 1 ELSE 2 * Pow2(n - 1)

\* a backoff that grows by base_delay each time instead of doubling
backoff_delay_linear(base_delay, attempt) == base_delay * attempt

\* delay = base_delay * (2 ** (attempt - 1))
backoff_delay(base_delay, attempt) == base_delay * Pow2(attempt - 1)

RetryInit ==
    \E m \in 0..MaxRetriesBound, d \in 1..MaxBaseDelay :
        rt = [pc |-> "for", max_retries |-> m, base_delay |-> d, attempt |-> 0,
              outcomes |-> <<>>, sleeps |-> <<>>, result |-> PyNone, exc |-> ""]

\* for attempt in range(1, max_retries + 1): the next attempt, or the end of
\* the range, after which the function body ends and None is returned.
ForNext ==
    /\ rt.pc = "for"
    /\ IF rt.attempt < rt.max_retries
         THEN rt' = [rt EXCEPT !.pc = "try", !.attempt = @ + 1]
         ELSE rt' = [rt EXCEPT !.pc = "returned", !.result = PyNone]
    /\ UNCHANGED <<apiVars, wsVars>>

\* return func(), or the except clause: raise on the last attempt, else
\* compute the delay and sleep.
TryFunc(o) ==
    /\ rt.pc = "try"
    /\ LET r == [rt EXCEPT !.outcomes = Append(@, o)]
       IN  IF o.ok THEN rt' = [r EXCEPT !.pc = "returned", !.result = o.value]
           ELSE IF rt.attempt = rt.max_retries
             THEN rt' = [r EXCEPT !.pc = "raised", !.exc = o.exc]
           ELSE rt' = [r EXCEPT !.pc = "sleep",
                                !.sleeps = Append(@, backoff_delay(rt.base_delay,
                                                                   rt.attempt))]
    /\ UNCHANGED <<apiVars, wsVars>>

\* time.sleep(delay) is over.
Wake ==
    /\ rt.pc = "sleep"
    /\ rt' = [rt EXCEPT !.pc = "for"]
    /\ UNCHANGED <<apiVars, wsVars>>

\* C7 as stated: func is called at most max_retries times; the function
\* returns only after a successful call, the first one, with that call's
\* result; it raises only after max_retries failed calls, with the last
\* call's exception.
C7_RetryContract ==
    LET n == Len(rt.outcomes)
    IN  /\ n <= rt.max_retries
        /\ \A i \in 1..(n - 1) : ~rt.outcomes[i].ok
        /\ rt.pc = "returned" =>
              (n >= 1 /\ rt.outcomes[n].ok /\ rt.result = rt.outcomes[n].value)
        /\ rt.pc = "raised" =>
              (n = rt.max_retries /\ ~rt.outcomes[n].ok /\ rt.exc = rt.outcomes[n].exc)

\* C11: for max_retries >= 1 (base_delay >= 1 throughout), the k-th wait
\* follows the k-th failed attempt, k < max_retries, and lasts
\* base_delay * 2^(k-1), so the first lasts base_delay and each later one
\* twice the one before; every attempt after the first is preceded by
\* exactly one wait, so attempt a starts with a - 1 waits made; a successful
\* attempt and the final failed attempt are followed by no wait.
C11_BackoffDoubles ==
    LET n == Len(rt.outcomes)
        w == Len(rt.sleeps)
    IN  (rt.pc # "off" /\ rt.max_retries >= 1 /\ rt.base_delay >= 1) =>
          /\ \A k \in 1..w :
                /\ k < rt.max_retries
                /\ k <= n /\ ~rt.outcomes[k].ok
                /\ rt.sleeps[k] = rt.base_delay * 2^(k - 1)
                /\ k = 1 => rt.sleeps[k] = rt.base_delay
                /\ k > 1 => rt.sleeps[k] = 2 * rt.sleeps[k - 1]
          /\ rt.pc = "try" => (n = rt.attempt - 1 /\ w = rt.attempt - 1)
          /\ rt.pc = "sleep" => (w = n /\ ~rt.outcomes[n].ok)
          /\ rt.pc = "for" => w = n
          /\ rt.pc = "returned" => (n >= 1 /\ rt.outcomes[n].ok /\ w = n - 1)
          /\ rt.pc = "raised" => (n = rt.max_retries /\ w = n - 1)

\* All the attempts allowed failed, three or more, with a wait after each
\* but the last.
C11_Witness ==
    /\ rt.pc = "raised"
    /\ rt.max_retries >= 3
    /\ rt.base_delay = 2
    /\ Len(rt.sleeps) = rt.max_retries - 1
    /\ rt.sleeps[1] = 2 /\ rt.sleeps[2] = 4

-----------------------------------------------------------------------------
(* Properties of WebSocketClient's dispatch, checked under SpecWsRecv *)

Socks == 1..Len(socks)

\* The frame taken in run r decoded to a JSON object.
GotObject(r) == r.parsed /\ r.exc # "AttributeError"

\* Its 'type' is a string on_message had been called for.
TypeRegistered(r) == r.known

\* A step in which on_message_received took a frame and ended without
\* reaching a handler.
Dropped == rx' # rx /\ rx'.calls = <<>>

\* C3: for a frame that is a JSON object, on_message_received calls exactly
\* one handler when the 'type' has one registered: the handler registered
\* last for that type, with the whole decoded message.  It calls none when the
\* type is unregistered or absent, and then is_connected and message_handlers
\* stay as they were.
C3_DispatchByType ==
    /\ [](GotObject(rx) =>
            IF TypeRegistered(rx)
              THEN /\ Len(rx.calls) = 1
                   /\ rx.calls[1].handler = rx.calls[1].latest
                   /\ rx.calls[1].arg = json_loads(rx.raw).value
              ELSE rx.calls = <<>>)
    /\ [](\A s \in Socks :
            socks[s].pc = "dispatch" =>
               (GotObject(socks[s].cur) /\ TypeRegistered(socks[s].cur)
                  /\ socks[s].cur.calls = <<>>))
    /\ [][(Dropped /\ GotObject(rx')) =>
            (is_connected' = is_connected /\ message_handlers' = message_handlers)]_vars

\* C3 witness: a price_update was handed to h2, the handler of that type,
\* while whale_movement has the handler h1.
C3_Witness ==
    /\ Len(rx.calls) = 1
    /\ rx.calls[1].handler = "h2"
    /\ rx.typ = PyStr("price_update")
    /\ rx.raw.opcode = "text"
    /\ "whale_movement" \in DOMAIN message_handlers
    /\ message_handlers["whale_movement"] = "h1"

\* C6 as stated: a frame that json.loads cannot parse calls no handler, lets
\* no exception out of on_message_received, and is printed as a parse
\* failure.
C6_ParseFailureOnlyPrinted ==
    (rx.raw # NoFrame /\ json_loads(rx.raw).exc # "") =>
        /\ rx.calls = <<>>
        /\ rx.exc = ""
        /\ rx.printed = "Failed to parse WebSocket message"

-----------------------------------------------------------------------------
(* Properties of the connection's life, checked under SpecWs *)

AuthText == json_dumps(AuthMsg(ws_token))

\* The calls of ws.send made by on_open of socket s with the auth message,
\* on socket s.
AuthSends(s) ==
    {i \in 1..Len(sendlog) :
        sendlog[i].by = s /\ sendlog[i].sock = s /\ sendlog[i].text = AuthText}

\* C4 as stated: once on_open of a socket is through, it has sent exactly one
\* auth message with the client's token on that socket if the client holds a
\* token, and none if it holds no token.
C4_OneAuthPerOpen ==
    \A s \in Socks :
        (socks[s].opened /\ socks[s].pc \in {"recv", "done"}) =>
            Cardinality(AuthSends(s)) = IF Truthy(ws_token) THEN 1 ELSE 0

\* A socket is open, or its listener thread has not ended.
Live(s) == socks[s].net = "open" \/ socks[s].pc # "done"

\* C5 as stated: at most one socket of the client is open or running, and
\* every socket not yet closed is the one disconnect() closes (self.ws).
C5_OneConnection ==
    /\ Cardinality({s \in Socks : Live(s)}) <= 1
    /\ \A s \in Socks : socks[s].net # "closed" => s = ws

\* C8 as stated, for a client that has called connect() once: every call of
\* ws.send comes after on_open and before on_close of the connection, and a
\* message send_message dropped is never sent.
C8_SendOnlyWhileOpen ==
    Len(socks) = 1 =>
        \A i \in 1..Len(sendlog) :
            /\ sendlog[i].opened
            /\ ~sendlog[i].closedcb
            /\ sendlog[i].by = 0 => sendlog[i].id \notin caller.dropped

IsType(text, ty) == dict_get(json_loads([opcode |-> "text", utf8 |-> TRUE,
                                         text |-> text]).value.items, "type") = PyStr(ty)

\* C9 as stated, for a client that holds a token and has called connect()
\* once: a subscribe message issued after connect() returned True is passed
\* to ws.send only after the auth message of on_open.
C9_AuthFirst ==
    (Len(socks) = 1 /\ Truthy(ws_token)) =>
        \A i \in 1..Len(sendlog) :
            (sendlog[i].after /\ IsType(sendlog[i].text, "subscribe")) =>
                \E j \in 1..(i - 1) :
                    sendlog[j].sock = sendlog[i].sock /\ sendlog[j].text = AuthText

-----------------------------------------------------------------------------
(* Specifications *)

ApiIdle ==
    /\ token = PyNone /\ headers = DefaultHeaders /\ apiPc = "idle"
    /\ wire = [op |-> "", method |-> "", url |-> "", headers |-> DefaultHeaders]
    /\ result = NoResult /\ lastSet = NotSet /\ calls = 0

WsIdle ==
    /\ ws_token = PyNone /\ ws = 0 /\ is_connected = FALSE
    /\ message_handlers = <<>> /\ socks = <<>>
    /\ caller = [pc |-> "idle", text |-> <<>>, sends |-> 0, connectedTrue |-> FALSE,
                 dropped |-> {}]
    /\ sendlog = <<>> /\ rx = NoRx /\ lastReg = <<>>

RetryIdle ==
    rt = [pc |-> "off", max_retries |-> 0, base_delay |-> 1, attempt |-> 0,
          outcomes |-> <<>>, sleeps |-> <<>>, result |-> PyNone, exc |-> ""]

InitApi == ApiInit /\ WsIdle /\ RetryIdle

NextApi ==
    \/ \E t \in TokenVals : SetToken(t)
    \/ \E op \in ApiOps : Forward(op)
    \/ \E resp \in Responses, b \in BOOLEAN : Answer(resp, b)

SpecApi == InitApi /\ [][NextApi]_vars

InitWs == ApiIdle /\ WsInit /\ RetryIdle

NextWs ==
    \/ Connect
    \/ ConnectReturn
    \/ \E ch \in Channels, c \in CoinIds : Subscribe(ch, c)
    \/ CallerSend
    \/ Disconnect
    \/ \E s \in 1..Len(socks) : OnOpen(s)
    \/ \E s \in 1..Len(socks) : OnOpenCheck(s)
    \/ \E s \in 1..Len(socks) : OnOpenSend(s)
    \/ \E s \in 1..Len(socks) : PeerClose(s)
    \/ \E s \in 1..Len(socks) : OnClose(s)

\* The connection's life: connect, subscribe and disconnect on the caller
\* thread against the callbacks of the listener threads.
SpecWs == InitWs /\ [][NextWs]_vars

\* Bound: connections made while the dispatch of received frames is checked.
MaxRecvSockets == 1

NextWsRecv ==
    \/ \E t \in MsgTypes, h \in HandlerIds : OnMessage(t, h)
    \/ Len(socks) < MaxRecvSockets /\ Connect
    \/ ConnectReturn
    \/ Disconnect
    \/ \E s \in 1..Len(socks) : OnOpen(s)
    \/ \E s \in 1..Len(socks) : OnOpenCheck(s)
    \/ \E s \in 1..Len(socks) : OnOpenSend(s)
    \/ \E s \in 1..Len(socks) : PeerClose(s)
    \/ \E s \in 1..Len(socks) : OnClose(s)
    \/ \E s \in 1..Len(socks), f \in Frames : Receive(s, f)
    \/ \E s \in 1..Len(socks) : Dispatch(s)

\* The dispatch of received frames: on_message on the caller thread against
\* on_message_received on the listener thread.
SpecWsRecv == InitWs /\ [][NextWsRecv]_vars

InitRetry == ApiIdle /\ WsIdle /\ RetryInit

NextRetry ==
    \/ ForNext
    \/ \E o \in FuncOutcomes : TryFunc(o)
    \/ Wake

SpecRetry == InitRetry /\ [][NextRetry]_vars

=============================================================================
